---- MODULE Spec2Model ----
(***************************************************************************)
(* Model of workout-app/app/page.tsx: the day-type selector, the target-   *)
(* weight calculator, and the Page component's store (setup + history),    *)
(* its localStorage blob and its event handlers.                           *)
(*                                                                         *)
(* Numbers.  Weights are exact rationals held as integers in units of      *)
(* 1/1200 lb.  With integer-lb 5RM inputs every intermediate value of     *)
(* computeTargetWeightLb (x 7/6, x 0.9, x pct, x 0.55) is a whole number   *)
(* of units, so no rounding happens except in roundTo2_5.                  *)
(* Percentages are held in hundredths (0.8 -> 80).                         *)
(*                                                                         *)
(* Optional fields.  A JS property that is absent or holds undefined is    *)
(* modelled as a record without that field: the program only ever reads    *)
(* such properties (never enumerates keys), and JSON.stringify drops both. *)
(***************************************************************************)
EXTENDS Integers, Sequences, FiniteSets, TLC

VARIABLES
    setup,      \* store.setup: Null or a Setup record
    history,    \* store.history: sequence of Session records, index 1 = history[0]
    storage,    \* window.localStorage[LS_KEY]: NoItem or the stored text
    loaded,     \* value read by the mount effect, waiting for its re-render
    pc,         \* position of the Page component: mount effects or idle
    now,        \* Date.now(), in ticks
    renderedAt, \* Date.now() at the last render: `today` is computed while rendering
    edits,      \* number of session / log edits made so far
    pkHistory,  \* argument of the last pickNextDayType call under SpecPick
    pkResult,   \* its result: <<>> before the call, <<dayType>> after
    tgArgs,     \* argument of the last computeTargetWeightLb call under SpecTarget
    tgResult    \* its result: <<>> before the call, <<weight>> after

vars == <<setup, history, storage, loaded, pc, now, renderedAt, edits,
          pkHistory, pkResult, tgArgs, tgResult>>

appVars == <<setup, history, storage, loaded, pc, now, renderedAt, edits>>
pkVars == <<pkHistory, pkResult>>
tgVars == <<tgArgs, tgResult>>

----------------------------------------------------------------------------
\* Bounds of the model

MaxPickLen == 5      \* longest history handed to pickNextDayType under SpecPick
MaxTgHist == 2       \* longest history handed to computeTargetWeightLb under SpecTarget
MaxSessions == 2     \* longest history
MaxEdits == 1        \* session / log edits ever made
MaxNow == 1          \* last clock tick
TicksPerDay == 1     \* clock ticks in one calendar day (the clock's grain)

----------------------------------------------------------------------------
\* Values

Null == [null |-> TRUE]          \* the JS value null, where a record may stand
NoItem == [noItem |-> TRUE]      \* getItem returning null: nothing stored under LS_KEY

\* n lb and n half-pounds, in units of 1/1200 lb
Lb(n) == n * 1200
HalfLb(n) == n * 600

LiftKeys == {"bench", "squat", "deadlift", "ohp", "row"}
DayTypes == {"Push", "Pull", "Legs", "Full"}
Goals == {"Hypertrophy", "Strength", "Health"}

Min(a, b) == IF a < b THEN a ELSE b
Max(a, b) == IF a > b THEN a ELSE b
MinOf(S) == CHOOSE x \in S : \A y \in S : x <= y

----------------------------------------------------------------------------
\* Pure helpers

estimate1RMFrom5RM(fiveRM) == (fiveRM * (30 + 5)) \div 30

trainingMax(oneRM) == (oneRM * 9) \div 10

\* roundTo2_5 with Math.ceil in place of Math.round
roundTo2_5Ceil(x) == ((x + HalfLb(5) - 1) \div HalfLb(5)) * HalfLb(5)

\* Math.round(x / 2.5) * 2.5; Math.round is floor(y + 1/2)
roundTo2_5(x) == ((2 * x + HalfLb(5)) \div (2 * HalfLb(5))) * HalfLb(5)

clamp(n, min, max) == Max(min, Min(max, n))

\* Array.prototype.slice(0, n)
slice(arr, n) == SubSeq(arr, 1, Min(n, Len(arr)))

\* Array.prototype.includes
includes(arr, x) == \E i \in 1..Len(arr) : arr[i] = x

\* Array.prototype.indexOf, 0-based, for an element that occurs
indexOf(arr, x) == MinOf({i \in 1..Len(arr) : arr[i] = x}) - 1

order == <<"Push", "Pull", "Legs", "Full">>

\* pickNextDayType with a window of 5 sessions in place of 4
pickNextDayTypeWindow5(hist) ==
    LET recent == [i \in 1..Len(slice(hist, 5)) |-> slice(hist, 5)[i].dayType]
        unseen == {i \in 1..Len(order) : ~includes(recent, order[i])}
    IN  IF unseen # {}
        THEN order[MinOf(unseen)]
        ELSE IF Len(hist) = 0
             THEN "Full"
             ELSE order[((indexOf(order, hist[1].dayType) + 1) % Len(order)) + 1]

pickNextDayType(hist) ==
    LET recent == [i \in 1..Len(slice(hist, 4)) |-> slice(hist, 4)[i].dayType]
        unseen == {i \in 1..Len(order) : ~includes(recent, order[i])}
    IN  IF unseen # {}
        THEN order[MinOf(unseen)]
        ELSE IF Len(hist) = 0
             THEN "Full"
             ELSE order[((indexOf(order, hist[1].dayType) + 1) % Len(order)) + 1]

----------------------------------------------------------------------------
\* Workout templates and sessions

Ex(id, name, primary, muscleGroups, sets, reps) ==
    [id |-> id, name |-> name, primary |-> primary,
     muscleGroups |-> muscleGroups, sets |-> sets, reps |-> reps]

\* { ...ex, targetWeightLb }
WithTarget(ex, w) ==
    [k \in DOMAIN ex \cup {"targetWeightLb"} |->
        IF k = "targetWeightLb" THEN w ELSE ex[k]]

\* uid() is called once per exercise, in list order; u is the first id handed out
baseWorkoutTemplate(dayType, u) ==
    IF dayType = "Push" THEN
        << Ex(u,     "Barbell Bench Press", "bench", {"Chest", "Triceps", "Shoulders"}, 4, "6-10"),
           Ex(u + 1, "Overhead Press", "ohp", {"Shoulders", "Triceps"}, 3, "6-10"),
           Ex(u + 2, "Incline Dumbbell Press", "accessory", {"Chest"}, 3, "8-12"),
           Ex(u + 3, "Lateral Raises", "accessory", {"Shoulders"}, 3, "12-15"),
           Ex(u + 4, "Triceps Rope Pushdown", "accessory", {"Triceps"}, 3, "10-15") >>
    ELSE IF dayType = "Pull" THEN
        << Ex(u,     "Barbell Row", "row", {"Back", "Biceps"}, 4, "6-10"),
           Ex(u + 1, "Pull-Ups / Lat Pulldown", "accessory", {"Back"}, 3, "6-12"),
           Ex(u + 2, "Seated Cable Row", "accessory", {"Back"}, 3, "8-12"),
           Ex(u + 3, "Face Pulls", "accessory", {"Rear Delts"}, 3, "12-15"),
           Ex(u + 4, "Dumbbell Curls", "accessory", {"Biceps"}, 3, "10-15") >>
    ELSE IF dayType = "Legs" THEN
        << Ex(u,     "Back Squat", "squat", {"Quads", "Glutes"}, 4, "5-8"),
           Ex(u + 1, "Romanian Deadlift", "accessory", {"Hamstrings", "Glutes"}, 3, "6-10"),
           Ex(u + 2, "Leg Press", "accessory", {"Quads"}, 3, "10-15"),
           Ex(u + 3, "Hamstring Curl", "accessory", {"Hamstrings"}, 3, "10-15"),
           Ex(u + 4, "Calf Raises", "accessory", {"Calves"}, 3, "12-20") >>
    ELSE
        << Ex(u,     "Deadlift (Technique / Moderate)", "deadlift", {"Posterior Chain"}, 3, "3-5"),
           Ex(u + 1, "Bench Press (Moderate)", "bench", {"Chest", "Triceps"}, 3, "6-10"),
           Ex(u + 2, "Barbell Row (Moderate)", "row", {"Back"}, 3, "6-10"),
           Ex(u + 3, "Goblet Squat / Front Squat", "accessory", {"Quads", "Core"}, 3, "8-12"),
           Ex(u + 4, "Plank / Hanging Knee Raises", "accessory", {"Core"}, 3, "30-60s") >>

----------------------------------------------------------------------------
\* Target-weight calculator

\* JS truthiness of ex.targetWeightLb: present and not 0
truthyTarget(ex) == "targetWeightLb" \in DOMAIN ex /\ ex.targetWeightLb # 0

\* the exercises of session s that the inner loop would return
matchingExercises(s, lift) ==
    {j \in 1..Len(s.workout) :
        s.workout[j].primary = lift /\ truthyTarget(s.workout[j])}

\* findLastLiftPerformance scanning the history from its oldest session
findLastLiftPerformanceOldest(hist, lift) ==
    LET hits == {i \in 1..Len(hist) : matchingExercises(hist[i], lift) # {}}
    IN  IF hits = {}
        THEN <<>>
        ELSE LET s == hist[CHOOSE i \in hits : \A k \in hits : k <= i]
             IN  << [session |-> s,
                     exercise |-> s.workout[MinOf(matchingExercises(s, lift))]] >>

\* <<>> for null, else <<[session, exercise]>> of the first match of the two
\* nested loops (the log is looked up but never read by the caller)
findLastLiftPerformance(hist, lift) ==
    LET hits == {i \in 1..Len(hist) : matchingExercises(hist[i], lift) # {}}
    IN  IF hits = {}
        THEN <<>>
        ELSE LET s == hist[MinOf(hits)]
             IN  << [session |-> s,
                     exercise |-> s.workout[MinOf(matchingExercises(s, lift))]] >>

\* basePctOf with the Strength and Health fractions exchanged
basePctOfSwapped(goal) ==
    IF goal = "Strength" THEN 65
    ELSE IF goal = "Health" THEN 80
    ELSE 70

basePctOf(goal) ==
    IF goal = "Strength" THEN 80
    ELSE IF goal = "Health" THEN 65
    ELSE 70

dayAdjustOf(dayType) == IF dayType = "Full" THEN -5 ELSE 0

\* bumpOf giving the easy-session bump from energy 3 up
bumpOfEnergy3(lastDifficulty, lastEnergy) ==
    IF lastDifficulty <= 2 /\ lastEnergy >= 3 THEN Lb(5)
    ELSE IF lastDifficulty = 3 THEN HalfLb(5)
    ELSE IF lastDifficulty >= 4 \/ lastEnergy <= 2 THEN -Lb(5)
    ELSE 0

\* bumpOf with the first two rules tried in the other order and a hard
\* session losing 2.5 only
bumpOfSoftPenalty(lastDifficulty, lastEnergy) ==
    IF lastDifficulty = 3 THEN HalfLb(5)
    ELSE IF lastDifficulty <= 2 /\ lastEnergy >= 4 THEN Lb(5)
    ELSE IF lastDifficulty >= 4 \/ lastEnergy <= 2 THEN -HalfLb(5)
    ELSE 0

bumpOf(lastDifficulty, lastEnergy) ==
    IF lastDifficulty <= 2 /\ lastEnergy >= 4 THEN Lb(5)
    ELSE IF lastDifficulty = 3 THEN HalfLb(5)
    ELSE IF lastDifficulty >= 4 \/ lastEnergy <= 2 THEN -Lb(5)
    ELSE 0

tMaxOf(su, lift) == trainingMax(estimate1RMFrom5RM(su.fiveRM[lift]))

\* the value of `target` when the clamp is reached
targetBeforeClamp(su, hist, lift, dayType) ==
    LET last == findLastLiftPerformance(hist, lift)
    IN  IF last # <<>> /\ truthyTarget(last[1].exercise)
        THEN last[1].exercise.targetWeightLb
                + bumpOf(last[1].session.difficulty, last[1].session.energy)
        ELSE (tMaxOf(su, lift) * (basePctOf(su.goal) + dayAdjustOf(dayType))) \div 100

clampLo(tMax) == (tMax * 55) \div 100
clampHi(tMax) == (tMax * 9) \div 10

computeTargetWeightLb(su, hist, lift, dayType) ==
    LET tMax == tMaxOf(su, lift)
    IN  roundTo2_5(clamp(targetBeforeClamp(su, hist, lift, dayType),
                         clampLo(tMax), clampHi(tMax)))

----------------------------------------------------------------------------
\* The Page component's store

EmptyStore == [setup |-> Null, history |-> <<>>]

dayOf(t) == t \div TicksPerDay

isSameDay(a, b) == dayOf(a) = dayOf(b)

InitApp ==
    /\ setup = Null
    /\ history = <<>>
    /\ storage = NoItem
    /\ loaded = EmptyStore
    /\ pc = "mount"
    /\ now = 0
    /\ renderedAt = 0
    /\ edits = 0

InitNoCalls ==
    /\ pkHistory = <<>>
    /\ pkResult = <<>>
    /\ tgArgs = [setup |-> Null, history |-> <<>>, lift |-> "bench", dayType |-> "Push"]
    /\ tgResult = <<>>

----------------------------------------------------------------------------
\* SpecPick: pickNextDayType applied to every history of at most MaxPickLen
\* sessions

\* a session as generateTodayWorkout leaves it, of the given day type
PkSession(dt, k) ==
    [id |-> 6 * k + 5, dateISO |-> 0, dayType |-> dt,
     muscleGroups |-> UNION {baseWorkoutTemplate(dt, 6 * k)[i].muscleGroups : i \in 1..5},
     energy |-> 3, difficulty |-> 3,
     workout |-> baseWorkoutTemplate(dt, 6 * k),
     logs |-> [i \in 1..5 |-> [exerciseId |-> 6 * k + i - 1]]]

PkHistories ==
    UNION {{[i \in 1..n |-> PkSession(f[i], i)] : f \in [1..n -> DayTypes]} : n \in 0..MaxPickLen}

InitPick ==
    /\ InitApp
    /\ pkHistory \in PkHistories
    /\ pkResult = <<>>
    /\ tgArgs = [setup |-> Null, history |-> <<>>, lift |-> "bench", dayType |-> "Push"]
    /\ tgResult = <<>>

PickCall ==
    /\ pkResult = <<>>
    /\ pkResult' = <<pickNextDayType(pkHistory)>>
    /\ UNCHANGED <<appVars, pkHistory, tgVars>>

NextPick == PickCall

SpecPick == InitPick /\ [][NextPick]_vars

\* C1: pickNextDayType called with an empty history returns Full.
C1_EmptyHistoryGivesFull ==
    (pkResult # <<>> /\ pkHistory = <<>>) => pkResult[1] = "Full"

\* the day types of the first (at most) 4 sessions of pkHistory
PkWindow == {pkHistory[i].dayType : i \in 1..Min(4, Len(pkHistory))}

PkRank(dt) == CHOOSE i \in 1..4 : order[i] = dt

PkSuccessor(dt) ==
    CASE dt = "Push" -> "Pull" [] dt = "Pull" -> "Legs"
      [] dt = "Legs" -> "Full" [] dt = "Full" -> "Push"

\* C2: for a non-empty history the result is the first of Push, Pull, Legs,
\* Full absent from the first 4 sessions' day types, or, when all four occur,
\* the cyclic successor of history[0]'s day type; sessions beyond the 4th do
\* not change the result.
C2_PickByWindow ==
    (pkResult # <<>> /\ pkHistory # <<>>) =>
        /\ (DayTypes \ PkWindow # {} =>
                /\ pkResult[1] \notin PkWindow
                /\ \A dt \in DayTypes \ PkWindow : PkRank(pkResult[1]) <= PkRank(dt))
        /\ (DayTypes \ PkWindow = {} => pkResult[1] = PkSuccessor(pkHistory[1].dayType))
        /\ \A h \in PkHistories :
                (Len(pkHistory) >= 4 /\ Len(h) >= 4 /\ \A i \in 1..4 : h[i].dayType = pkHistory[i].dayType)
                    => pickNextDayType(h) = pkResult[1]

\* C2 witness: a 5-session history whose first four sessions hold all four
\* day types has been answered
C2_Witness ==
    /\ pkResult # <<>>
    /\ Len(pkHistory) = 5
    /\ PkWindow = DayTypes

----------------------------------------------------------------------------
\* SpecTarget: computeTargetWeightLb applied to profiles and histories drawn
\* from bounded sets.  The lift asked for is the bench; every session holds
\* an accessory exercise followed by one tracked exercise.

TgLift == "bench"
TgOtherLift == "row"

\* the draft profile the page starts with (lbs -> units)
DefaultDraft ==
    [name |-> "Paul", gender |-> "Male", heightIn |-> 70, weightLb |-> 180,
     goal |-> "Hypertrophy",
     fiveRM |-> [l \in LiftKeys |->
        CASE l = "bench" -> Lb(225) [] l = "squat" -> Lb(275)
          [] l = "deadlift" -> Lb(315) [] l = "ohp" -> Lb(135) [] l = "row" -> Lb(185)]]

\* 5RM values typed for the bench, in lb
TgFiveRMs == {0, 100, 225}

TgSetup(goal, r) ==
    [DefaultDraft EXCEPT !.goal = goal, !.fiveRM = [@ EXCEPT ![TgLift] = Lb(r)]]

\* the tracked exercise of a session: no target recorded, a target of 0, a
\* target inside the clamp interval of a 225 lb 5RM, or another lift's
\* exercise; history[0] may also hold a target below or far above the interval
TgTargets(k) == IF k = 1 THEN {0, 100, 175, 1000} ELSE {0, 175}

TgExercises(k, u) ==
    { Ex(u, "Barbell Bench Press", TgLift, {"Chest"}, 4, "6-10") }
    \cup { WithTarget(Ex(u, "Barbell Bench Press", TgLift, {"Chest"}, 4, "6-10"), Lb(w)) :
                w \in TgTargets(k) }
    \cup { WithTarget(Ex(u, "Barbell Row", TgOtherLift, {"Back"}, 4, "6-10"), Lb(175)) }

TgSession(k, ex, d, e) ==
    [id |-> 3 * k, dateISO |-> 0 - k, dayType |-> "Push",
     muscleGroups |-> {"Chest"} \cup ex.muscleGroups,
     energy |-> e, difficulty |-> d,
     workout |-> << Ex(3 * k + 1, "Incline Dumbbell Press", "accessory", {"Chest"}, 3, "8-12"), ex >>,
     logs |-> << [exerciseId |-> 3 * k + 1], [exerciseId |-> 3 * k + 2] >>]

\* <<difficulty, energy>>: history[0] takes every pair; older sessions keep
\* the ratings of the later demo session
TgRatings(k) ==
    IF k = 1 THEN (1..5) \X (1..5) ELSE {<<4, 3>>}

TgSessions(k) ==
    {TgSession(k, ex, de[1], de[2]) : ex \in TgExercises(k, 3 * k + 2), de \in TgRatings(k)}

RECURSIVE TgHistories(_)
TgHistories(n) ==
    IF n = 0 THEN {<<>>}
    ELSE TgHistories(n - 1)
         \cup {Append(h, s) : h \in {g \in TgHistories(n - 1) : Len(g) = n - 1},
                               s \in TgSessions(n)}

InitTarget ==
    /\ InitApp
    /\ pkHistory = <<>>
    /\ pkResult = <<>>
    /\ tgArgs \in {[setup |-> TgSetup(g, r), history |-> h, lift |-> TgLift, dayType |-> dt] :
                        g \in Goals, r \in TgFiveRMs, h \in TgHistories(MaxTgHist),
                        dt \in {"Push", "Full"}}
    /\ tgResult = <<>>

TargetCall ==
    /\ tgResult = <<>>
    /\ tgResult' = <<computeTargetWeightLb(tgArgs.setup, tgArgs.history, tgArgs.lift, tgArgs.dayType)>>
    /\ UNCHANGED <<appVars, pkVars, tgArgs>>

NextTarget == TargetCall

SpecTarget == InitTarget /\ [][NextTarget]_vars

\* what the finished call was asked and what it answered
TgDone == tgResult # <<>>
TgFiveRM == tgArgs.setup.fiveRM[tgArgs.lift]
\* training max = 5RM x 7/6 x 0.9 = 5RM x 21/20
TgTMax == (TgFiveRM * 21) \div 20
TgLo == (TgTMax * 11) \div 20
TgHi == (TgTMax * 18) \div 20
TgLast == findLastLiftPerformance(tgArgs.history, tgArgs.lift)
TgRound(x) == HalfLb(5) * ((x + HalfLb(5) \div 2) \div HalfLb(5))
TgClamp(x) == IF x < TgLo THEN TgLo ELSE IF x > TgHi THEN TgHi ELSE x

\* C3 (as stated): the result is a multiple of 2.5 and lies in
\* [0, 0.9 x training max].
C3_WithinClampAfterRounding ==
    TgDone =>
        /\ tgResult[1] % HalfLb(5) = 0
        /\ 0 <= tgResult[1]
        /\ tgResult[1] <= TgHi

\* C3 (amended): the result is a multiple of 2.5, is not negative, and
\* exceeds 0.9 x training max by at most 1.25 (half a rounding step).
C3_WithinHalfStepOfClamp ==
    TgDone =>
        /\ tgResult[1] % HalfLb(5) = 0
        /\ 0 <= tgResult[1]
        /\ 4 * (tgResult[1] - TgHi) <= Lb(5)

\* C3 witness: a last target far above the clamp interval was clamped to
\* 0.9 x training max and rounding took the result above it
C3_Witness ==
    /\ TgDone
    /\ TgLast # <<>>
    /\ TgLast[1].exercise.targetWeightLb > 2 * TgHi
    /\ tgResult[1] > TgHi

\* the claimed bump table, rules read in the order given
ClaimedBump(d, e) ==
    CASE d <= 2 /\ e >= 4 -> Lb(5)
      [] d = 3 -> HalfLb(5)
      [] d >= 4 \/ (d <= 2 /\ e <= 2) -> 0 - Lb(5)
      [] OTHER -> 0

\* C6: with a last performance the result is
\* roundTo2.5(clamp(lastW + bump, 0.55 tMax, 0.90 tMax)), whatever the goal
\* and the day type; bench 5RM 225 with last target 175, d = 2, e = 4 gives 180.
C6_ProgressionFromLast ==
    (TgDone /\ TgLast # <<>>) =>
        LET lastW == TgLast[1].exercise.targetWeightLb
            d == TgLast[1].session.difficulty
            e == TgLast[1].session.energy
        IN  /\ tgResult[1] = TgRound(TgClamp(lastW + ClaimedBump(d, e)))
            /\ (TgFiveRM = Lb(225) /\ lastW = Lb(175) /\ d = 2 /\ e = 4)
                    => tgResult[1] = Lb(180)

\* C6 witness: the progression scenario of the spec has been computed
C6_Witness ==
    /\ TgDone
    /\ TgLast # <<>>
    /\ TgFiveRM = Lb(225)
    /\ TgLast[1].exercise.targetWeightLb = Lb(175)
    /\ TgLast[1].session.difficulty = 2
    /\ TgLast[1].session.energy = 4
    /\ tgResult[1] = Lb(180)

\* C7 (as stated): last difficulty 1 or 2 with energy 1, 2 or 3 gives bump 0:
\* the pre-clamp target is the last prescribed weight.
C7_LowEnergyEasyBumpZero ==
    (TgDone /\ TgLast # <<>>
        /\ TgLast[1].session.difficulty \in {1, 2}
        /\ TgLast[1].session.energy \in {1, 2, 3}) =>
        /\ targetBeforeClamp(tgArgs.setup, tgArgs.history, tgArgs.lift, tgArgs.dayType)
                = TgLast[1].exercise.targetWeightLb
        /\ tgResult[1] = TgRound(TgClamp(TgLast[1].exercise.targetWeightLb))

\* C7 (amended): last difficulty 1 or 2 gives bump 0 only with energy exactly
\* 3; with energy 1 or 2 the third rule matches and the bump is -5.
C7_EasyBumpZeroOnlyAtEnergy3 ==
    (TgDone /\ TgLast # <<>> /\ TgLast[1].session.difficulty \in {1, 2}) =>
        LET lastW == TgLast[1].exercise.targetWeightLb
            e == TgLast[1].session.energy
            pre == targetBeforeClamp(tgArgs.setup, tgArgs.history, tgArgs.lift, tgArgs.dayType)
        IN  /\ e = 3 => (pre = lastW /\ tgResult[1] = TgRound(TgClamp(lastW)))
            /\ e \in {1, 2} =>
                    (pre = lastW - Lb(5) /\ tgResult[1] = TgRound(TgClamp(lastW - Lb(5))))

\* C7 witness: an easy low-energy last session (d = 2, e = 2) lowered an
\* in-range target of 175 to 170
C7_Witness ==
    /\ TgDone
    /\ TgLast # <<>>
    /\ TgFiveRM = Lb(225)
    /\ TgLast[1].session.difficulty = 2
    /\ TgLast[1].session.energy = 2
    /\ TgLast[1].exercise.targetWeightLb = Lb(175)
    /\ tgResult[1] = Lb(170)

\* sessions of the asked history holding an exercise of the asked lift
TgRecorded == {i \in 1..Len(tgArgs.history) :
    \E j \in 1..Len(tgArgs.history[i].workout) :
        /\ tgArgs.history[i].workout[j].primary = tgArgs.lift
        /\ "targetWeightLb" \in DOMAIN tgArgs.history[i].workout[j]}

TgRecordedNonZero == {i \in 1..Len(tgArgs.history) :
    \E j \in 1..Len(tgArgs.history[i].workout) :
        /\ tgArgs.history[i].workout[j].primary = tgArgs.lift
        /\ "targetWeightLb" \in DOMAIN tgArgs.history[i].workout[j]
        /\ tgArgs.history[i].workout[j].targetWeightLb # 0}

TgFirst(S) == CHOOSE i \in S : \A k \in S : i <= k

TgAnswerOn(h) == computeTargetWeightLb(tgArgs.setup, h, tgArgs.lift, tgArgs.dayType)

\* C8 (as stated): the last performance is the first session, in history
\* order, with an exercise of the lift that has a recorded target, a target
\* of 0 included; sessions after it are not consulted.
C8_FirstRecordedTargetIsLast ==
    (TgDone /\ TgRecorded # {}) =>
        /\ TgLast # <<>>
        /\ TgLast[1].session = tgArgs.history[TgFirst(TgRecorded)]
        /\ tgResult[1] = TgAnswerOn(SubSeq(tgArgs.history, 1, TgFirst(TgRecorded)))

\* C8 (amended): the last performance is the first session, in history
\* order, with an exercise of the lift whose recorded target is not 0 (a
\* target of 0 is passed over like a missing one), with or without a log;
\* sessions after it are not consulted, and without such a session there is
\* no last performance.
C8_FirstNonZeroTargetIsLast ==
    TgDone =>
        /\ (TgRecordedNonZero # {} =>
                /\ TgLast # <<>>
                /\ TgLast[1].session = tgArgs.history[TgFirst(TgRecordedNonZero)]
                /\ TgLast[1].exercise.primary = tgArgs.lift
                /\ tgResult[1] = TgAnswerOn(SubSeq(tgArgs.history, 1, TgFirst(TgRecordedNonZero))))
        /\ (TgRecordedNonZero = {} =>
                /\ TgLast = <<>>
                /\ tgResult[1] = TgAnswerOn(<<>>))

\* C8 witness: history[0] records a bench target of 0, history[1] one of 175,
\* and the answer came from history[1]
C8_Witness ==
    /\ TgDone
    /\ Len(tgArgs.history) >= 2
    /\ TgRecorded # {}
    /\ TgFirst(TgRecorded) = 1
    /\ TgRecordedNonZero # {}
    /\ TgFirst(TgRecordedNonZero) = 2
    /\ tgResult[1] # TgAnswerOn(SubSeq(tgArgs.history, 1, 1))

\* the claimed intensity fraction, in hundredths
ClaimedFraction(goal, dayType) ==
    (CASE goal = "Strength" -> 80 [] goal = "Health" -> 65 [] goal = "Hypertrophy" -> 70)
        - (IF dayType = "Full" THEN 5 ELSE 0)

\* C9: without a last performance the result is roundTo2.5(tMax x f), and
\* tMax x f already lies in [0.55 tMax, 0.90 tMax]; bench 5RM 225,
\* Hypertrophy, Push, empty history gives 165.
C9_BaselineWithoutLast ==
    (TgDone /\ TgLast = <<>>) =>
        LET base == (TgTMax * ClaimedFraction(tgArgs.setup.goal, tgArgs.dayType)) \div 100
        IN  /\ tgResult[1] = TgRound(base)
            /\ TgLo <= base /\ base <= TgHi
            /\ (TgFiveRM = Lb(225) /\ tgArgs.setup.goal = "Hypertrophy"
                    /\ tgArgs.dayType = "Push" /\ tgArgs.history = <<>>)
                    => tgResult[1] = Lb(165)

\* C9 witness: the target-weight scenario of the spec has been computed
C9_Witness ==
    /\ TgDone
    /\ tgArgs.history = <<>>
    /\ TgFiveRM = Lb(225)
    /\ tgArgs.setup.goal = "Hypertrophy"
    /\ tgArgs.dayType = "Push"
    /\ tgResult[1] = Lb(165)

----------------------------------------------------------------------------
\* Spec: the Page component.  Every handler is taken together with the
\* re-render its setStore causes and the write-back effect that follows.

\* A JSON text is held as its parse tree: null, an object with its members,
\* an array with its items.  JSON.stringify leaves out members that hold
\* undefined (such fields are absent from the model's records already);
\* the numbers of the store are finite and are written and read back
\* unchanged, as are strings.  Sessions, exercises and logs inside the
\* history array are kept as the records JSON.parse makes of them.
jsonNull == [type |-> "null"]
jsonObject(obj) == [type |-> "object", members |-> obj]
jsonArray(arr) == [type |-> "array", items |-> arr]

\* JSON.stringify({ setup, history })
JSONstringify(su, hist) ==
    jsonObject([setup |-> IF su = Null THEN jsonNull ELSE jsonObject(su),
                history |-> jsonArray(hist)])

\* saveState dropping the newest session from what it writes
saveStateTail(su, hist) ==
    [text |-> JSONstringify(su, IF hist = <<>> THEN hist ELSE Tail(hist))]

\* localStorage.setItem(LS_KEY, JSON.stringify({ setup, history }))
saveState(su, hist) == [text |-> JSONstringify(su, hist)]

\* getItem, JSON.parse, `parsed.setup ?? null`, Array.isArray(parsed.history);
\* the program never stores a text that JSON.parse rejects
loadState(raw) ==
    IF raw = NoItem
    THEN EmptyStore
    ELSE LET parsed == raw.text.members
         IN  [setup |-> IF parsed.setup.type = "null" THEN Null ELSE parsed.setup.members,
              history |-> IF parsed.history.type = "array" THEN parsed.history.items ELSE <<>>]

\* history[0] if it is dated on the day of the last render, else <<>>
today ==
    IF Len(history) > 0 /\ isSameDay(history[1].dateISO, renderedAt)
    THEN <<history[1]>>
    ELSE <<>>

\* { ...obj, ...patch } where the patch sets the fields of `set` and gives
\* undefined to the fields named in `unset`
spread(obj, set, unset) ==
    [k \in (DOMAIN obj \cup DOMAIN set) \ unset |->
        IF k \in DOMAIN set THEN set[k] ELSE obj[k]]

\* setStore(next), the re-render, and saveState from the effect on [setup, history]
setStore(su, hist) ==
    /\ setup' = su
    /\ history' = hist
    /\ renderedAt' = now
    /\ storage' = saveState(su, hist)

\* first effect after mount: loadState(), setStore(s) queued
MountLoad ==
    /\ pc = "mount"
    /\ loaded' = loadState(storage)
    /\ pc' = "mount-save"
    /\ UNCHANGED <<setup, history, storage, now, renderedAt, edits, pkVars, tgVars>>

\* second effect after mount: saveState with the state of the first render
MountSave ==
    /\ pc = "mount-save"
    /\ storage' = saveState(setup, history)
    /\ pc' = "mount-rerender"
    /\ UNCHANGED <<setup, history, loaded, now, renderedAt, edits, pkVars, tgVars>>

\* the queued setStore(s) is rendered and the write-back effect runs again
MountRerender ==
    /\ pc = "mount-rerender"
    /\ setStore(loaded.setup, loaded.history)
    /\ loaded' = EmptyStore
    /\ pc' = "idle"
    /\ UNCHANGED <<now, edits, pkVars, tgVars>>

\* the page is opened again: component state starts over, storage stays
Reload ==
    /\ pc = "idle"
    /\ setup' = Null
    /\ history' = <<>>
    /\ loaded' = EmptyStore
    /\ renderedAt' = now
    /\ pc' = "mount"
    /\ UNCHANGED <<storage, now, edits, pkVars, tgVars>>

\* any state change outside the store (draft typing, demo-mode box) renders
Rerender ==
    /\ pc = "idle"
    /\ renderedAt # now
    /\ renderedAt' = now
    /\ UNCHANGED <<setup, history, storage, loaded, pc, now, edits, pkVars, tgVars>>

Tick ==
    /\ now < MaxNow
    /\ now' = now + 1
    /\ UNCHANGED <<setup, history, storage, loaded, pc, renderedAt, edits, pkVars, tgVars>>

\* uid(): an identifier no live object holds.  Sessions take 6 identifiers each
\* and leave the store only all together (demo load, reset), so the numbers
\* from 6 * Len(hist) on are unused by the sessions of hist.
uid(hist) == 6 * Len(hist)

\* drafts the user may have typed before pressing "Save setup"
DraftSetups ==
    { DefaultDraft,
      [DefaultDraft EXCEPT !.goal = "Strength", !.fiveRM = [@ EXCEPT !["bench"] = 0]] }

SaveSetup(draftSetup) ==
    /\ pc = "idle"
    /\ setStore(draftSetup, history)
    /\ UNCHANGED <<loaded, pc, now, edits, pkVars, tgVars>>

DemoSetup == [DefaultDraft EXCEPT !.name = "Demo Athlete"]

\* uid() order: session id, then its exercises, for each of the two sessions
DemoHistory(u, t) ==
    << [id |-> u, dateISO |-> t - 2 * TicksPerDay, dayType |-> "Push",
        muscleGroups |-> {"Chest", "Shoulders", "Triceps"},
        energy |-> 4, difficulty |-> 3, sleepHours |-> 7,
        workout |->
          << WithTarget(Ex(u + 1, "Barbell Bench Press", "bench", {"Chest", "Triceps"}, 4, "6-10"), Lb(175)),
             WithTarget(Ex(u + 2, "Overhead Press", "ohp", {"Shoulders"}, 3, "6-10"), Lb(105)),
             Ex(u + 3, "Incline Dumbbell Press", "accessory", {"Chest"}, 3, "8-12"),
             Ex(u + 4, "Lateral Raises", "accessory", {"Shoulders"}, 3, "12-15"),
             Ex(u + 5, "Triceps Rope Pushdown", "accessory", {"Triceps"}, 3, "10-15") >>,
        logs |-> <<>>],
       [id |-> u + 6, dateISO |-> t - 1 * TicksPerDay, dayType |-> "Pull",
        muscleGroups |-> {"Back", "Biceps"},
        energy |-> 3, difficulty |-> 4, sleepHours |-> 6,
        workout |->
          << WithTarget(Ex(u + 7, "Barbell Row", "row", {"Back"}, 4, "6-10"), Lb(145)),
             Ex(u + 8, "Pull-Ups / Lat Pulldown", "accessory", {"Back"}, 3, "6-12"),
             Ex(u + 9, "Seated Cable Row", "accessory", {"Back"}, 3, "8-12"),
             Ex(u + 10, "Face Pulls", "accessory", {"Rear Delts"}, 3, "12-15"),
             Ex(u + 11, "Dumbbell Curls", "accessory", {"Biceps"}, 3, "10-15") >>,
        logs |-> <<>>] >>

applyDemoData ==
    /\ pc = "idle"
    /\ 2 <= MaxSessions
    /\ setStore(DemoSetup, DemoHistory(uid(<<>>), now))
    /\ UNCHANGED <<loaded, pc, now, edits, pkVars, tgVars>>

\* the session built by generateTodayWorkout; u is the first of its 6 uids
newSession(su, hist, u, t) ==
    LET dayType == pickNextDayType(hist)
        template == baseWorkoutTemplate(dayType, u)
        workout == [i \in 1..Len(template) |->
            IF template[i].primary \in LiftKeys
            THEN WithTarget(template[i],
                    computeTargetWeightLb(su, hist, template[i].primary, dayType))
            ELSE template[i]]
    IN  [id |-> u + 5, dateISO |-> t, dayType |-> dayType,
         muscleGroups |-> UNION {workout[i].muscleGroups : i \in 1..Len(workout)},
         energy |-> 3, difficulty |-> 3,
         workout |-> workout,
         logs |-> [i \in 1..Len(workout) |-> [exerciseId |-> workout[i].id]]]

generateTodayWorkout ==
    /\ pc = "idle"
    /\ setup # Null
    /\ Len(history) < MaxSessions
    /\ setStore(setup, <<newSession(setup, history, uid(history), now)>> \o history)
    /\ UNCHANGED <<loaded, pc, now, edits, pkVars, tgVars>>

\* updateToday(patch): history[0] is replaced by { ...today, ...patch }
updateToday(set, unset) ==
    /\ pc = "idle"
    /\ today # <<>>
    /\ edits < MaxEdits
    /\ edits' = edits + 1
    /\ setStore(setup, <<spread(today[1], set, unset)>> \o Tail(history))
    /\ UNCHANGED <<loaded, pc, now, pkVars, tgVars>>

\* values typed into the boxes, before clamping; <<>> is an emptied box
EnergyInputs == {9}
DifficultyInputs == {0}
SleepInputs == {<<>>, <<7>>}
ActualWeightInputs == {<<135>>}
ActualRepsInputs == {"10,9,8"}
RpeInputs == {<<11>>}

updateEnergy(v) == updateToday([energy |-> clamp(v, 1, 5)], {})

updateDifficulty(v) == updateToday([difficulty |-> clamp(v, 1, 5)], {})

\* an emptied box gives undefined
updateSleepHours(v) ==
    IF v = <<>> THEN updateToday(<<>>, {"sleepHours"})
    ELSE updateToday([sleepHours |-> v[1]], {})

\* updateExerciseLog(exId, patch) for one of the logger's boxes
updateExerciseLog(exId, set, unset) ==
    /\ today # <<>>
    /\ updateToday(
            [logs |-> [i \in 1..Len(today[1].logs) |->
                IF today[1].logs[i].exerciseId = exId
                THEN spread(today[1].logs[i], set, unset)
                ELSE today[1].logs[i]]],
            {})

\* the logger row typed into: the first exercise of today's workout
LoggedExerciseIds ==
    IF today = <<>> \/ today[1].workout = <<>> THEN {}
    ELSE {today[1].workout[1].id}

updateActualWeight(exId, v) ==
    IF v = <<>> THEN updateExerciseLog(exId, <<>>, {"actualWeightLb"})
    ELSE updateExerciseLog(exId, [actualWeightLb |-> v[1]], {})

updateActualReps(exId, v) == updateExerciseLog(exId, [actualReps |-> v], {})

updateRpe(exId, v) ==
    IF v = <<>> THEN updateExerciseLog(exId, <<>>, {"rpe"})
    ELSE updateExerciseLog(exId, [rpe |-> clamp(v[1], 1, 10)], {})

\* removeItem, then setStore of the empty store, whose effect writes it back
resetAll ==
    /\ pc = "idle"
    /\ setStore(Null, <<>>)
    /\ UNCHANGED <<loaded, pc, now, edits, pkVars, tgVars>>

Init == InitApp /\ InitNoCalls

Next ==
    \/ MountLoad
    \/ MountSave
    \/ MountRerender
    \/ Reload
    \/ Rerender
    \/ Tick
    \/ \E d \in DraftSetups : SaveSetup(d)
    \/ applyDemoData
    \/ generateTodayWorkout
    \/ \E v \in EnergyInputs : updateEnergy(v)
    \/ \E v \in DifficultyInputs : updateDifficulty(v)
    \/ \E v \in SleepInputs : updateSleepHours(v)
    \/ \E x \in LoggedExerciseIds : \E v \in ActualWeightInputs : updateActualWeight(x, v)
    \/ \E x \in LoggedExerciseIds : \E v \in ActualRepsInputs : updateActualReps(x, v)
    \/ \E x \in LoggedExerciseIds : \E v \in RpeInputs : updateRpe(x, v)
    \/ resetAll

Spec == Init /\ [][Next]_vars

----------------------------------------------------------------------------
\* Claims about the store

\* C4: every session in history has exactly one log entry per exercise of
\* its workout list and no others, linked by the exercise's identifier.
C4_OneLogPerExercise ==
    \A i \in 1..Len(history) :
        LET s == history[i]
        IN  /\ \A j \in 1..Len(s.workout) :
                    Cardinality({l \in 1..Len(s.logs) : s.logs[l].exerciseId = s.workout[j].id}) = 1
            /\ \A l \in 1..Len(s.logs) :
                    \E j \in 1..Len(s.workout) : s.logs[l].exerciseId = s.workout[j].id

\* C5: history never holds two sessions with the same calendar date.
C5_OneSessionPerDay ==
    \A i, j \in 1..Len(history) :
        i # j => ~isSameDay(history[i].dateISO, history[j].dateISO)

\* C10: session dates in history are non-increasing from index 0 onward.
C10_MostRecentFirst ==
    \A i, j \in 1..Len(history) :
        i < j => history[i].dateISO >= history[j].dateISO

C12_StartupKeepsBlob ==
    (pc \in {"mount-save", "mount-rerender"} /\ loaded # EmptyStore)
        => storage # saveState(Null, <<>>)

\* a session or log edit was made in this step
EditStep == edits' = edits + 1

\* the step leaves the profile, the length and order of history, every
\* session but history[0], and the id, date, day type and workout list of
\* history[0] as they were
EditFrame ==
    /\ setup' = setup
    /\ Len(history') = Len(history)
    /\ \A i \in 2..Len(history) : history'[i] = history[i]
    /\ Len(history) > 0 =>
            /\ history'[1].id = history[1].id
            /\ history'[1].dateISO = history[1].dateISO
            /\ history'[1].dayType = history[1].dayType
            /\ history'[1].workout = history[1].workout

\* C13: an edit changes only history[0] and only when history[0] is dated
\* today; otherwise it changes nothing.
C13_EditOnlyTodaysSession ==
    [][EditStep =>
        IF Len(history) > 0 /\ isSameDay(history[1].dateISO, now)
        THEN EditFrame
        ELSE UNCHANGED <<setup, history, storage>>]_vars

\* the same frame with "today" taken at the last render, which is what the
\* handlers close over
EditFrameAtRender ==
    [][EditStep =>
        /\ Len(history) > 0
        /\ isSameDay(history[1].dateISO, renderedAt)
        /\ EditFrame]_vars

====
